---- MODULE Spec2Model ----
(***************************************************************************)
(* The message relay of src/app.py: the Flask view webhook(), the LINE SDK *)
(* handler it calls (handler.handle), and the registered text-message      *)
(* handler handle_message() with its helpers get_ai_response() and         *)
(* save_message().  The three external services are part of the state:     *)
(* the Firestore collection "messages" (db), the chat the LINE platform    *)
(* delivers replies to (chat), and the completion service, whose answer is *)
(* an input of the step that calls it.                                     *)
(*                                                                         *)
(* One action per step of the code between two external calls.  The calls  *)
(* a request makes are recorded as they are made: calls is the trace of    *)
(* the text event being handled (or last handled), made counts the calls   *)
(* of the whole request.  Before the first request the module is imported: *)
(* the environment is checked and the clients are constructed (lines       *)
(* 17-56), then the listener is bound (lines 146-147).                     *)
(***************************************************************************)
EXTENDS Naturals, Sequences, FiniteSets, TLC

\* Bounds of the model.
\* Text events handled over one run (over all requests).
MaxHandled == 2
\* Events in one webhook payload.
MaxEvents == 2

(***************************************************************************)
(* Values                                                                  *)
(***************************************************************************)

\* src/app.py:125, the fixed reply of get_ai_response when the completion
\* call fails: "すみません、現在応答を生成できません。" (transliterated,
\* the module is ASCII).
FallbackReply == "sumimasen, genzai outou wo seisei dekimasen."

\* The X-Line-Signature header as request.headers.get returns it (line 61):
\* None when the header is absent, else a string that matches the HMAC of
\* the body or does not.
Signatures == {"absent", "mismatch", "valid"}

\* Webhook events the platform can put in a payload.  Each event carries its
\* own reply token; only E1 and E2 are text messages.
E1 == [type |-> "message", message |-> "text", user_id |-> "U1",
       text |-> "hello", reply_token |-> "T1"]
E2 == [type |-> "message", message |-> "text", user_id |-> "U2",
       text |-> "hi", reply_token |-> "T2"]
E3 == [type |-> "message", message |-> "image", user_id |-> "U1",
       text |-> "", reply_token |-> "T3"]
E4 == [type |-> "follow", message |-> "none", user_id |-> "U2",
       text |-> "", reply_token |-> "T4"]
EventPool == {E1, E2, E3, E4}

\* Event lists of n distinct events.
EventLists(n) == {s \in [1..n -> EventPool] :
                    \A i, j \in 1..n : s[i] = s[j] => i = j}

\* Request bodies: one that is not decodable (not JSON), and the decodable
\* ones, {"events": [...]}.
Undecodable == [decodable |-> FALSE, events |-> <<>>]
Bodies == {Undecodable} \cup
          {[decodable |-> TRUE, events |-> s] :
              s \in UNION {EventLists(n) : n \in 0..MaxEvents}}

\* What openai.ChatCompletion.create can do (lines 111-119): return a
\* response with a message content, or raise.
CompletionResults == {[kind |-> "content", content |-> " ok "],
                      [kind |-> "error", content |-> "APIError"]}

\* str.strip() (line 120) on the content above and on stripped text.
Strip(s) == IF s = " ok " THEN "ok" ELSE s

(***************************************************************************)
(* The code's functions                                                    *)
(***************************************************************************)

\* handler.handle(body, signature), line 67, up to the first handler call:
\* WebhookParser.parse validates the signature (signature.encode(...) on
\* None raises AttributeError; a mismatch raises InvalidSignatureError) and
\* then json.loads the body (raises on a body that is not JSON).
ParseOutcome(sig, b) ==
    CASE sig = "absent" -> "Exception"
      [] sig = "mismatch" -> "InvalidSignatureError"
      [] sig = "valid" /\ ~b.decodable -> "Exception"
      [] OTHER -> "ok"

\* webhook(), lines 66-75: the status of the response for each way
\* handler.handle ends.
WebhookResponse_swallow(outcome) ==
    CASE outcome = "InvalidSignatureError" -> 400
      [] OTHER -> 200

WebhookResponse(outcome) ==
    CASE outcome = "InvalidSignatureError" -> 400
      [] outcome = "Exception" -> 500
      [] OTHER -> 200

\* @handler.add(MessageEvent, message=TextMessage), line 78: the events
\* handle_message is invoked for.  No other handler and no default handler
\* is registered.
Registered_anyMessage(e) == e.type = "message"

Registered(e) == e.type = "message" /\ e.message = "text"

\* get_ai_response(), lines 109-125, given what the completion call did.
get_ai_response_errtext(result) ==
    IF result.kind = "content" THEN Strip(result.content) ELSE result.content

get_ai_response(result) ==
    IF result.kind = "content" THEN Strip(result.content) ELSE FallbackReply

\* The document save_message builds, lines 130-135 (the timestamp is set by
\* the server).
Record_swapped(user_id, sender, text) ==
    [user_id |-> sender, sender |-> user_id, text |-> text]

Record(user_id, sender, text) ==
    [user_id |-> user_id, sender |-> sender, text |-> text]

\* save_message(), lines 128-138, on the collection store; store_ok is
\* whether Firestore accepts the add.  The except clause (137-138) logs and
\* returns: nothing is raised to the caller.  errors is the number of error
\* lines save_message logs (line 138).
save_message_dedup(store, user_id, sender, text, store_ok) ==
    LET rec == Record(user_id, sender, text)
        dup == \E i \in 1..Len(store) : store[i] = rec
    IN  [db |-> IF store_ok /\ ~dup THEN Append(store, rec) ELSE store,
         ok |-> store_ok, raised |-> FALSE,
         errors |-> IF store_ok THEN 0 ELSE 1]

save_message_inplace(store, user_id, sender, text, store_ok) ==
    LET rec == Record(user_id, sender, text)
    IN  [db |-> IF ~store_ok THEN store
                ELSE IF sender = "bot" /\ Len(store) > 0
                     THEN [store EXCEPT ![Len(store)] = rec]
                     ELSE Append(store, rec),
         ok |-> store_ok, raised |-> FALSE,
         errors |-> IF store_ok THEN 0 ELSE 1]

save_message_reraise(store, user_id, sender, text, store_ok) ==
    [db |-> IF store_ok THEN Append(store, Record(user_id, sender, text))
            ELSE store,
     ok |-> store_ok, raised |-> ~store_ok,
     errors |-> IF store_ok THEN 0 ELSE 1]

save_message_skipFallback(store, user_id, sender, text, store_ok) ==
    [db |-> IF store_ok /\ text # FallbackReply
            THEN Append(store, Record(user_id, sender, text))
            ELSE store,
     ok |-> store_ok, raised |-> FALSE,
     errors |-> IF store_ok THEN 0 ELSE 1]

save_message(store, user_id, sender, text, store_ok) ==
    [db |-> IF store_ok THEN Append(store, Record(user_id, sender, text))
            ELSE store,
     ok |-> store_ok, raised |-> FALSE,
     errors |-> IF store_ok THEN 0 ELSE 1]

\* handle_message(), lines 89-90 and 98-99: the error lines the except
\* clause around a save_message call logs.
CaughtErrors(raised) == IF raised THEN 1 ELSE 0

\* line_bot_api.reply_message(reply_token, TextSendMessage(text)), line 103:
\* the platform accepts a reply when the call gets through (platform_ok)
\* and the reply token has not been used; otherwise the call raises
\* LineBotApiError.
Spent(ch) == {ch[i].reply_token : i \in 1..Len(ch)}

ReplyAccepted(reply_token, text, ch, platform_ok) ==
    platform_ok /\ reply_token \notin Spent(ch)

\* handle_message(), lines 86-106: the step that follows a step.  Each of
\* the two save_message calls and the reply is wrapped in try/except
\* Exception, and get_ai_response returns normally, so the next step is the
\* same whether the step failed or not.
AfterStep_abort(step, failed) ==
    IF failed THEN "events"
    ELSE CASE step = "save_user" -> "complete"
           [] step = "complete" -> "save_bot"
           [] step = "save_bot" -> "reply"
           [] OTHER -> "events"

AfterStep_retry(step, failed) ==
    IF failed THEN step
    ELSE CASE step = "save_user" -> "complete"
           [] step = "complete" -> "save_bot"
           [] step = "save_bot" -> "reply"
           [] OTHER -> "events"

AfterStep_replyFirst(step, failed) ==
    CASE step = "save_user" -> "complete"
      [] step = "complete" -> "reply"
      [] step = "reply" -> "save_bot"
      [] OTHER -> "events"

AfterStep_wait(step, failed) ==
    IF failed THEN "waiting"
    ELSE CASE step = "save_user" -> "complete"
           [] step = "complete" -> "save_bot"
           [] step = "save_bot" -> "reply"
           [] OTHER -> "events"

AfterStep(step, failed) ==
    CASE step = "save_user" -> "complete"
      [] step = "complete" -> "save_bot"
      [] step = "save_bot" -> "reply"
      [] OTHER -> "events"

\* handle_message(), lines 87-90, 96-99, 102-106: whether an exception of a
\* step leaves handle_message (and reaches the except clause of webhook,
\* line 71).  Every except clause catches Exception and only logs.
Propagates_reply(step, raised) == step = "reply" /\ raised

Propagates(step, raised) == FALSE

\* The configuration, lines 17-20: the four environment variables, each
\* absent (os.getenv gives None), empty or set; the credentials can also be
\* set to text that is not the JSON of a service account.
ConfigNames == {"LINE_CHANNEL_ACCESS_TOKEN", "LINE_CHANNEL_SECRET",
                "OPENAI_API_KEY", "GOOGLE_CLOUD_CREDENTIALS"}
Configs == {c \in [ConfigNames -> {"absent", "empty", "set", "bad"}] :
              \A n \in ConfigNames :
                  c[n] = "bad" => n = "GOOGLE_CLOUD_CREDENTIALS"}

\* missing_vars, lines 23-31: `not value` holds of None and of "".
MissingVars_noneOnly(c) == {n \in ConfigNames : c[n] = "absent"}

MissingVars(c) == {n \in ConfigNames : c[n] \in {"absent", "empty"}}

\* The module-level objects, lines 38-56: db, line_bot_api, handler, the
\* openai key and app.
FirebaseClients == {"db"}
OtherClients == {"line_bot_api", "handler", "openai.api_key", "app"}

\* handle_message(), lines 79-106, on the module-level state: it assigns no
\* module-level name and changes no module-level object.
HandlerGlobals_cache(p, e) == [p EXCEPT !.clients = @ \cup {e.user_id}]

HandlerGlobals(p, e) == p

(***************************************************************************)
(* State                                                                   *)
(***************************************************************************)
VARIABLES
    pc,         \* where the request in progress is
    signature,  \* webhook: signature (line 61)
    body,       \* webhook: body (line 62)
    response,   \* status of the response of the request, 0 before it is set
    events,     \* handler.handle: the parsed payload's events
    idx,        \* handler.handle: position in the loop over the events
    local,      \* handle_message: user_id, user_message, reply_token,
                \* ai_response
    db,         \* Firestore collection "messages", in order of creation
    chat,       \* replies the platform has delivered, in order
    calls,      \* external calls of the text event in hand, in order
    made,       \* number of external calls of the request, by kind
    handled,    \* text events handled in the run
    config,     \* the environment variables of the process
    proc,       \* the process: how far startup got, the module-level
                \* objects constructed, whether the listener is bound
    twin        \* a second run of the request in hand, with the same
                \* completion and platform outcomes and its own store
                \* outcomes (followed only when twin.on)

vars == <<pc, signature, body, response, events, idx, local, db, chat,
          calls, made, handled, config, proc, twin>>

NoLocal == [user_id |-> "", user_message |-> "", reply_token |-> "",
            ai_response |-> ""]
NoCalls == [save |-> 0, complete |-> 0, reply |-> 0]

NumText(evs) == Cardinality({i \in 1..Len(evs) : Registered(evs[i])})

ProcStart == [stage |-> "start", clients |-> {}, listening |-> FALSE,
              error |-> {}]

TwinOff == [on |-> FALSE, pc |-> "idle", writes |-> <<>>,
            ai_response |-> "", sent |-> <<>>, response |-> 0]
TwinOn == [TwinOff EXCEPT !.on = TRUE]

\* The steps of handle_message in the second run: the same functions on
\* the second run's own position and locals.
TwinContinue(t, step, failed, raised) ==
    IF Propagates(step, raised)
    THEN [t EXCEPT !.pc = "done", !.response = WebhookResponse("Exception")]
    ELSE [t EXCEPT !.pc = AfterStep(step, failed)]

TwinSave(t, step, sender, store_ok) ==
    IF t.on /\ t.pc = step
    THEN LET r == save_message(<<>>, "", sender, t.ai_response, store_ok)
         IN  TwinContinue([t EXCEPT !.writes = Append(@, r.ok)],
                          step, ~r.ok, r.raised)
    ELSE t

TwinComplete(t, result) ==
    IF t.on /\ t.pc = "complete"
    THEN TwinContinue([t EXCEPT !.ai_response = get_ai_response(result)],
                      "complete", result.kind # "content", FALSE)
    ELSE t

TwinReply(t, reply_token, ch, platform_ok) ==
    IF t.on /\ t.pc = "reply"
    THEN LET accepted == ReplyAccepted(reply_token, t.ai_response, ch,
                                       platform_ok)
         IN  TwinContinue([t EXCEPT !.sent = Append(@, [text |-> t.ai_response,
                                                        ok |-> accepted])],
                          "reply", ~accepted, ~accepted)
    ELSE t

InitBase ==
    /\ pc = "idle"
    /\ signature = "absent"
    /\ body = Undecodable
    /\ response = 0
    /\ events = <<>>
    /\ idx = 0
    /\ local = NoLocal
    /\ db = <<>>
    /\ chat = <<>>
    /\ calls = <<>>
    /\ made = NoCalls
    /\ handled = 0
    /\ config \in Configs
    /\ proc = ProcStart

Init == InitBase /\ twin = TwinOff

\* The same, with the second run followed.
InitTwin == InitBase /\ twin = TwinOn

(***************************************************************************)
(* Actions                                                                 *)
(***************************************************************************)

\* Import of the module, lines 17-36: the environment is read and checked;
\* with a variable missing, ValueError naming the missing ones is raised.
CheckEnv ==
    /\ proc.stage = "start"
    /\ LET missing == MissingVars(config)
       IN  proc' = IF missing # {}
                   THEN [proc EXCEPT !.stage = "failed", !.error = missing]
                   ELSE [proc EXCEPT !.stage = "checked"]
    /\ UNCHANGED <<pc, signature, body, response, events, idx, local, db,
                   chat, calls, made, handled, config, twin>>

\* Lines 38-46: the credentials are decoded and the Firestore client is
\* made; an exception is logged and raised again.
InitFirebase ==
    /\ proc.stage = "checked"
    /\ proc' = IF config["GOOGLE_CLOUD_CREDENTIALS"] = "set"
               THEN [proc EXCEPT !.stage = "firebase",
                                 !.clients = FirebaseClients]
               ELSE [proc EXCEPT !.stage = "failed",
                                 !.error = {"Firebase"}]
    /\ UNCHANGED <<pc, signature, body, response, events, idx, local, db,
                   chat, calls, made, handled, config, twin>>

\* Lines 48-56: the LINE clients, the openai key and the Flask app.
InitClients ==
    /\ proc.stage = "firebase"
    /\ proc' = [proc EXCEPT !.stage = "loaded",
                            !.clients = @ \cup OtherClients]
    /\ UNCHANGED <<pc, signature, body, response, events, idx, local, db,
                   chat, calls, made, handled, config, twin>>

\* Lines 146-147: app.run binds the listener.
Run ==
    /\ proc.stage = "loaded"
    /\ proc' = [proc EXCEPT !.stage = "serving", !.listening = TRUE]
    /\ UNCHANGED <<pc, signature, body, response, events, idx, local, db,
                   chat, calls, made, handled, config, twin>>

\* A POST /webhook arrives: lines 59-64.
Receive(sig, b) ==
    /\ proc.listening
    /\ pc = "idle"
    /\ handled + NumText(b.events) <= MaxHandled
    /\ signature' = sig
    /\ body' = b
    /\ response' = 0
    /\ events' = <<>>
    /\ idx' = 0
    /\ local' = NoLocal
    /\ calls' = <<>>
    /\ made' = NoCalls
    /\ pc' = "received"
    /\ UNCHANGED <<db, chat, handled, config, proc, twin>>

\* handler.handle verifies and parses, line 67; on an exception webhook
\* answers at once, lines 68-73.
Parse ==
    /\ pc = "received"
    /\ LET o == ParseOutcome(signature, body)
       IN  IF o = "ok"
           THEN /\ events' = body.events
                /\ idx' = 1
                /\ pc' = "events"
                /\ UNCHANGED response
           ELSE /\ response' = WebhookResponse(o)
                /\ pc' = "done"
                /\ UNCHANGED <<events, idx>>
    /\ twin' = IF ~twin.on THEN twin
               ELSE IF ParseOutcome(signature, body) = "ok"
                    THEN [twin EXCEPT !.pc = "events"]
                    ELSE [twin EXCEPT
                            !.pc = "done",
                            !.response = WebhookResponse(
                                            ParseOutcome(signature, body))]
    /\ UNCHANGED <<signature, body, local, db, chat, calls, made, handled,
                   config, proc>>

\* handler.handle finds no handler for the event: nothing is called.
Skip ==
    /\ pc = "events"
    /\ idx <= Len(events)
    /\ ~Registered(events[idx])
    /\ idx' = idx + 1
    /\ UNCHANGED <<pc, signature, body, response, events, local, db, chat,
                   calls, made, handled, config, proc, twin>>

\* The end of a step of handle_message: on to the next step, back to the
\* loop of handler.handle, or out through webhook's except clause.
Continue(step, failed, raised) ==
    IF Propagates(step, raised)
    THEN /\ response' = WebhookResponse("Exception")
         /\ pc' = "done"
         /\ UNCHANGED idx
    ELSE /\ pc' = AfterStep(step, failed)
         /\ idx' = IF pc' = "events" THEN idx + 1 ELSE idx
         /\ UNCHANGED response

\* handler.handle invokes handle_message for a text event, lines 79-84: the
\* locals are set.
Invoke ==
    /\ pc = "events"
    /\ idx <= Len(events)
    /\ Registered(events[idx])
    /\ local' = [user_id |-> events[idx].user_id,
                 user_message |-> events[idx].text,
                 reply_token |-> events[idx].reply_token,
                 ai_response |-> ""]
    /\ calls' = <<>>
    /\ handled' = handled + 1
    /\ pc' = "save_user"
    /\ proc' = HandlerGlobals(proc, events[idx])
    /\ twin' = IF twin.on /\ twin.pc = "events"
               THEN [twin EXCEPT !.pc = "save_user", !.writes = <<>>,
                                 !.ai_response = "", !.sent = <<>>]
               ELSE twin
    /\ UNCHANGED <<signature, body, response, events, idx, db, chat, made,
                   config>>

\* save_message(user_id, "user", user_message), lines 86-90.
SaveUser(store_ok) ==
    /\ pc = "save_user"
    /\ LET r == save_message(db, local.user_id, "user", local.user_message,
                             store_ok)
       IN  /\ db' = r.db
           /\ calls' = Append(calls,
                              [op |-> "save", ev |-> idx,
                               user_id |-> local.user_id, sender |-> "user",
                               text |-> local.user_message, handle |-> "",
                               ok |-> r.ok, at |-> Len(r.db), result |-> "",
                               env_ok |-> store_ok, raised |-> r.raised,
                               logged |-> r.errors + CaughtErrors(r.raised)])
           /\ made' = [made EXCEPT !.save = @ + 1]
           /\ Continue("save_user", ~r.ok, r.raised)
    /\ \E twin_ok \in BOOLEAN :
          twin' = TwinSave(twin, "save_user", "user", twin_ok)
    /\ UNCHANGED <<signature, body, events, local, chat, handled, config,
                   proc>>

\* get_ai_response(user_message), line 93.
Complete(result) ==
    /\ pc = "complete"
    /\ LET text == get_ai_response(result)
       IN  /\ local' = [local EXCEPT !.ai_response = text]
           /\ calls' = Append(calls,
                              [op |-> "complete", ev |-> idx,
                               user_id |-> "", sender |-> "",
                               text |-> local.user_message, handle |-> "",
                               ok |-> result.kind = "content", at |-> 0,
                               result |-> result.content,
                               env_ok |-> result.kind = "content",
                               raised |-> FALSE,
                               logged |-> IF result.kind = "content"
                                          THEN 0 ELSE 1])
           /\ made' = [made EXCEPT !.complete = @ + 1]
           /\ Continue("complete", result.kind # "content", FALSE)
    /\ twin' = TwinComplete(twin, result)
    /\ UNCHANGED <<signature, body, events, db, chat, handled, config,
                   proc>>

\* save_message(user_id, "bot", ai_response), lines 96-99.
SaveBot(store_ok) ==
    /\ pc = "save_bot"
    /\ LET r == save_message(db, local.user_id, "bot", local.ai_response,
                             store_ok)
       IN  /\ db' = r.db
           /\ calls' = Append(calls,
                              [op |-> "save", ev |-> idx,
                               user_id |-> local.user_id, sender |-> "bot",
                               text |-> local.ai_response, handle |-> "",
                               ok |-> r.ok, at |-> Len(r.db), result |-> "",
                               env_ok |-> store_ok, raised |-> r.raised,
                               logged |-> r.errors + CaughtErrors(r.raised)])
           /\ made' = [made EXCEPT !.save = @ + 1]
           /\ Continue("save_bot", ~r.ok, r.raised)
    /\ \E twin_ok \in BOOLEAN :
          twin' = TwinSave(twin, "save_bot", "bot", twin_ok)
    /\ UNCHANGED <<signature, body, events, local, chat, handled, config,
                   proc>>

\* line_bot_api.reply_message(...), lines 102-106.
Reply(platform_ok) ==
    /\ pc = "reply"
    /\ LET accepted == ReplyAccepted(local.reply_token, local.ai_response,
                                     chat, platform_ok)
       IN  /\ chat' = IF accepted
                      THEN Append(chat, [reply_token |-> local.reply_token,
                                         text |-> local.ai_response])
                      ELSE chat
           /\ calls' = Append(calls,
                              [op |-> "reply", ev |-> idx, user_id |-> "",
                               sender |-> "", text |-> local.ai_response,
                               handle |-> local.reply_token, ok |-> accepted,
                               at |-> IF accepted THEN Len(chat') ELSE 0,
                               result |-> IF local.reply_token \in Spent(chat)
                                          THEN "spent" ELSE "fresh",
                               env_ok |-> platform_ok,
                               raised |-> ~accepted,
                               logged |-> IF accepted THEN 0 ELSE 1])
           /\ made' = [made EXCEPT !.reply = @ + 1]
           /\ Continue("reply", ~accepted, ~accepted)
    /\ twin' = TwinReply(twin, local.reply_token, chat, platform_ok)
    /\ UNCHANGED <<signature, body, events, local, db, handled, config,
                   proc>>

\* handler.handle returns after the last event; webhook answers, line 75.
Finish ==
    /\ pc = "events"
    /\ idx > Len(events)
    /\ response' = WebhookResponse("ok")
    /\ pc' = "done"
    /\ twin' = IF twin.on /\ twin.pc = "events"
               THEN [twin EXCEPT !.pc = "done",
                                 !.response = WebhookResponse("ok")]
               ELSE twin
    /\ UNCHANGED <<signature, body, events, idx, local, db, chat, calls,
                   made, handled, config, proc>>

\* The response is sent and the request's frame is gone; the process waits
\* for the next request.
Respond ==
    /\ pc = "done"
    /\ pc' = "idle"
    /\ signature' = "absent"
    /\ body' = Undecodable
    /\ response' = 0
    /\ events' = <<>>
    /\ idx' = 0
    /\ local' = NoLocal
    /\ calls' = <<>>
    /\ made' = NoCalls
    /\ twin' = [TwinOff EXCEPT !.on = twin.on]
    /\ UNCHANGED <<db, chat, handled, config, proc>>

\* The steps of a request once it has arrived.
Step ==
    \/ Parse
    \/ Skip
    \/ Invoke
    \/ \E store_ok \in BOOLEAN : SaveUser(store_ok)
    \/ \E result \in CompletionResults : Complete(result)
    \/ \E store_ok \in BOOLEAN : SaveBot(store_ok)
    \/ \E platform_ok \in BOOLEAN : Reply(platform_ok)
    \/ Finish
    \/ Respond

Next ==
    \/ CheckEnv
    \/ InitFirebase
    \/ InitClients
    \/ Run
    \/ \E sig \in Signatures, b \in Bodies : Receive(sig, b)
    \/ Parse
    \/ Skip
    \/ Invoke
    \/ \E store_ok \in BOOLEAN : SaveUser(store_ok)
    \/ \E result \in CompletionResults : Complete(result)
    \/ \E store_ok \in BOOLEAN : SaveBot(store_ok)
    \/ \E platform_ok \in BOOLEAN : Reply(platform_ok)
    \/ Finish
    \/ Respond

Spec == Init /\ [][Next]_vars

\* A request that arrives before the process has handled a text event.
FirstReceive(sig, b) == handled = 0 /\ db = <<>> /\ Receive(sig, b)

NextFirst ==
    \/ CheckEnv
    \/ InitFirebase
    \/ InitClients
    \/ Run
    \/ \E sig \in Signatures, b \in Bodies : FirstReceive(sig, b)
    \/ Parse
    \/ Skip
    \/ Invoke
    \/ \E store_ok \in BOOLEAN : SaveUser(store_ok)
    \/ \E result \in CompletionResults : Complete(result)
    \/ \E store_ok \in BOOLEAN : SaveBot(store_ok)
    \/ \E platform_ok \in BOOLEAN : Reply(platform_ok)
    \/ Finish
    \/ Respond

\* The requests up to the first with text events, with the second run
\* followed.
SpecTwin == InitTwin /\ [][NextFirst]_vars

\* Every external call returns (with success or failure) and the handler
\* thread runs on: a request that has arrived takes its next step.
LiveSpec == Init /\ [][NextFirst]_vars /\ WF_vars(Step)

(***************************************************************************)
(* Properties                                                              *)
(***************************************************************************)

\* A text-message event, as the platform defines it.
IsTextEvent(e) == e.type = "message" /\ e.message = "text"
TextCount(evs) == Cardinality({i \in 1..Len(evs) : IsTextEvent(evs[i])})

\* The calls of the event in hand, by kind, and their kinds in order.
CallsOf(op) == SelectSeq(calls, LAMBDA c : c.op = op)
SavesOf(sender) == SelectSeq(calls, LAMBDA c : c.op = "save" /\ c.sender = sender)
Ops == [i \in 1..Len(calls) |-> calls[i].op]
FullPipeline == <<"save", "complete", "save", "reply">>

\* handle_message has returned for the event whose calls are in calls.
Returned == pc \in {"events", "done"} /\ calls # <<>>
\* The request passed verification and parsing.
Verified == signature = "valid" /\ body.decodable

\* C1: a request whose signature verification fails is answered 400 and
\* makes no completion call, no persistence write and no dispatch.
C1_RejectedWith400 ==
    signature # "valid" =>
        /\ made = NoCalls
        /\ pc = "done" => response = 400

\* C2: handling a verified text event makes exactly one completion call, at
\* most two persistence writes (one user turn, one bot turn) and exactly one
\* dispatch attempt, whatever fails; no step is retried.
C2_OneCallPerStep ==
    /\ Len(CallsOf("complete")) <= 1
    /\ Len(CallsOf("reply")) <= 1
    /\ Len(SavesOf("user")) <= 1
    /\ Len(SavesOf("bot")) <= 1
    /\ Len(CallsOf("save")) <= 2
    /\ Returned =>
          /\ Len(CallsOf("complete")) = 1
          /\ Len(CallsOf("reply")) = 1
    /\ (pc = "done" /\ Verified) =>
          /\ made.complete = TextCount(events)
          /\ made.reply = TextCount(events)
          /\ made.save <= 2 * TextCount(events)

C2_Witness ==
    /\ pc = "done"
    /\ Verified
    /\ TextCount(events) = 2
    /\ \A i \in 1..Len(calls) : ~calls[i].ok

\* C3: if the completion call fails, get_ai_response returns the fallback
\* string and the text passed to the dispatch is that string, never an empty
\* string or the description of the error.
C3_FallbackDispatched ==
    \A i \in 1..Len(calls) :
        (calls[i].op = "complete" /\ ~calls[i].ok) =>
            /\ local.ai_response = FallbackReply
            /\ \A j \in 1..Len(calls) :
                  calls[j].op = "reply" =>
                      /\ calls[j].text = FallbackReply
                      /\ calls[j].text # ""
                      /\ calls[j].text # calls[i].result

C3_Witness ==
    /\ Returned
    /\ \E i \in 1..Len(calls) : calls[i].op = "complete" /\ ~calls[i].ok
    /\ \E j \in 1..Len(calls) : calls[j].op = "reply" /\ calls[j].ok
    /\ chat[Len(chat)].text = FallbackReply

\* C4: if the user-turn write, the bot-turn write or both fail, the later
\* steps are still attempted (completion call, bot-turn write, dispatch),
\* and the dispatch succeeds exactly when the platform accepts it, as with
\* successful writes.
C4_WriteFailureDoesNotGate ==
    (Returned /\ \E i \in 1..Len(calls) : calls[i].op = "save" /\ ~calls[i].ok)
        => /\ Ops = FullPipeline
           /\ calls[4].ok <=> (calls[4].env_ok /\ calls[4].result = "fresh")

C4_Witness ==
    /\ Returned
    /\ Ops = FullPipeline
    /\ ~calls[1].ok /\ ~calls[3].ok
    /\ calls[4].ok

\* C5 as stated: every request that passes signature verification is
\* answered 200.
C5_Original ==
    (pc = "done" /\ signature = "valid") => response = 200

\* C5 as amended: a non-200 response comes only from the verification and
\* parsing stage (a signature failure, or a body that cannot be decoded);
\* a request that passed verification and parsing is answered 200 whatever
\* combination of user-turn write, completion call, bot-turn write and
\* dispatch fails.
C5_Amended ==
    pc = "done" =>
        /\ Verified => response = 200
        /\ response # 200 => (signature # "valid" \/ ~body.decodable)

C5_Witness ==
    /\ pc = "done"
    /\ response = 200
    /\ Ops = FullPipeline
    /\ \A i \in 1..Len(calls) : ~calls[i].ok

\* C6: a verified request without text-message events is answered 200 and
\* makes no completion call, persistence write or dispatch; a non-text
\* event in a mixed batch makes no call.
C6_NonTextNoCalls ==
    /\ (pc = "done" /\ Verified /\ TextCount(events) = 0) =>
          /\ response = 200
          /\ made = NoCalls
    /\ (pc = "events" /\ Verified) =>
          LET n == TextCount(SubSeq(events, 1, idx - 1))
          IN  made = [save |-> 2 * n, complete |-> n, reply |-> n]

C6_Witness ==
    /\ pc = "done"
    /\ Verified
    /\ Len(events) = 2
    /\ TextCount(events) = 0
    /\ response = 200

\* C7 as stated: a request with a valid signature and a body that is not
\* decodable is answered 200 and makes no call.
C7_Original ==
    (pc = "done" /\ signature = "valid" /\ ~body.decodable) =>
        /\ response = 200
        /\ made = NoCalls

\* C7 as amended: such a request produces zero events and makes no
\* completion call, persistence write or dispatch, and is answered 500.
C7_Amended ==
    (pc = "done" /\ signature = "valid" /\ ~body.decodable) =>
        /\ response = 500
        /\ events = <<>>
        /\ made = NoCalls

C7_Witness ==
    /\ pc = "done"
    /\ signature = "valid"
    /\ ~body.decodable
    /\ response = 500

\* C8: a replay of a verified single-text-event payload whose reply handle
\* the first run consumed runs the whole pipeline again: its own user-turn
\* and bot-turn writes (new records when the store accepts them), its own
\* completion call and its own dispatch attempt; it fails at the dispatch
\* and at no earlier step, and is answered 200.
C8_ReplayRunsAgain ==
    (/\ pc = "done"
     /\ Verified
     /\ Len(events) = 1
     /\ IsTextEvent(events[1])
     /\ \E i \in 1..Len(calls) :
           calls[i].op = "reply" /\ calls[i].result = "spent")
        => /\ Ops = FullPipeline
           /\ \A i \in {1, 3} :
                 /\ calls[i].ok = calls[i].env_ok
                 /\ calls[i].ok =>
                       /\ calls[i].at \in 1..Len(db)
                       /\ db[calls[i].at] = Record(calls[i].user_id,
                                                   calls[i].sender,
                                                   calls[i].text)
           /\ (calls[1].ok /\ calls[3].ok) => calls[1].at < calls[3].at
           /\ calls[2].ok = calls[2].env_ok
           /\ ~calls[4].ok
           /\ made = [save |-> 2, complete |-> 1, reply |-> 1]
           /\ response = 200

C8_Witness ==
    /\ pc = "done"
    /\ events = <<E1>>
    /\ Ops = FullPipeline
    /\ calls[4].result = "spent"
    /\ ~calls[4].ok
    /\ Len(db) = 4
    /\ db[1] = db[3]
    /\ response = 200

\* C9: for a verified text event the user sees the generated reply
\* (completion and dispatch succeeded), the fallback reply (completion
\* failed, dispatch succeeded) or nothing, and nothing only when the
\* dispatch attempt failed; after a failed dispatch nothing is delivered.
C9_UserVisibleOutcome ==
    /\ \A i, j \in 1..Len(chat) :
          chat[i].reply_token = chat[j].reply_token => i = j
    /\ Returned =>
          /\ Ops = FullPipeline
          /\ calls[4].ok =>
                /\ calls[4].at = Len(chat)
                /\ chat[Len(chat)] =
                      [reply_token |-> events[calls[4].ev].reply_token,
                       text |-> IF calls[2].ok THEN Strip(calls[2].result)
                                ELSE FallbackReply]
          /\ (~calls[4].ok /\ calls[4].result = "fresh") =>
                calls[4].handle \notin Spent(chat)
          /\ calls[4].handle \notin Spent(chat) => ~calls[4].ok

C9_Witness ==
    /\ Returned
    /\ Ops = FullPipeline
    /\ calls[2].ok
    /\ ~calls[4].ok
    /\ calls[4].result = "fresh"
    /\ calls[4].handle \notin Spent(chat)

\* C10: the conversation log is append-only: no step changes or removes a
\* record, and a user-turn record that was written is still there unchanged
\* when the completion call, the bot-turn write or the dispatch has failed.
C10_RecordsKept ==
    \A i \in 1..Len(calls) :
        (calls[i].op = "save" /\ calls[i].ok) =>
            /\ calls[i].at \in 1..Len(db)
            /\ db[calls[i].at] = Record(calls[i].user_id, calls[i].sender,
                                        calls[i].text)
C10_AppendStep ==
    /\ Len(db') >= Len(db)
    /\ \A i \in 1..Len(db) : db'[i] = db[i]
C10_AppendOnly == []C10_RecordsKept /\ [][C10_AppendStep]_vars

C10_Witness ==
    /\ Returned
    /\ Ops = FullPipeline
    /\ calls[1].ok
    /\ ~calls[2].ok /\ ~calls[3].ok /\ ~calls[4].ok
    /\ Len(db) = 3
    /\ db[3] = Record(calls[1].user_id, "user", calls[1].text)

\* C11: for a verified text event with sender U, text T and reply handle H
\* the completion call gets T, the user-turn record is (U, user, T), the
\* bot-turn record is (U, bot, reply text) and the dispatch uses H; in a
\* batch no step of an event uses the user id, text or handle of another.
C11_ArgumentsOfTheEvent ==
    \A i \in 1..Len(calls) :
        LET c == calls[i]
            e == events[c.ev]
        IN  /\ c.ev \in 1..Len(events)
            /\ IsTextEvent(e)
            /\ c.op = "complete" => c.text = e.text
            /\ (c.op = "save" /\ c.sender = "user") =>
                  /\ c.user_id = e.user_id
                  /\ c.text = e.text
                  /\ c.ok => db[c.at] = [user_id |-> e.user_id,
                                         sender |-> "user", text |-> e.text]
            /\ (c.op = "save" /\ c.sender = "bot") =>
                  /\ c.user_id = e.user_id
                  /\ c.text = local.ai_response
                  /\ \A j \in 1..Len(calls) :
                        calls[j].op = "complete" =>
                            c.text = IF calls[j].ok
                                     THEN Strip(calls[j].result)
                                     ELSE FallbackReply
                  /\ c.ok => db[c.at] = [user_id |-> e.user_id,
                                         sender |-> "bot", text |-> c.text]
            /\ c.op = "reply" => c.handle = e.reply_token

C11_Witness ==
    /\ pc = "done"
    /\ Len(events) = 2
    /\ TextCount(events) = 2
    /\ Ops = FullPipeline
    /\ \A i \in 1..4 : calls[i].ok /\ calls[i].ev = 2
    /\ Len(db) = 4
    /\ db[1] = [user_id |-> events[1].user_id, sender |-> "user",
                text |-> events[1].text]
    /\ db[2].user_id = events[1].user_id /\ db[2].sender = "bot"
    /\ db[3] = [user_id |-> events[2].user_id, sender |-> "user",
                text |-> events[2].text]
    /\ db[4] = [user_id |-> events[2].user_id, sender |-> "bot",
                text |-> "ok"]
    /\ chat = <<[reply_token |-> events[1].reply_token, text |-> "ok"],
                [reply_token |-> events[2].reply_token, text |-> "ok"]>>

\* The configuration values that are absent or empty.
Missing == {n \in ConfigNames : config[n] \in {"absent", "empty"}}

\* C12: if one of the four configuration values is absent or empty at
\* process start, the process fails with an explicit error before any
\* client is constructed and before the listener is bound, and no request
\* is ever handled.
C12_FailFast ==
    Missing # {} =>
        /\ proc.stage \in {"start", "failed"}
        /\ proc.stage = "failed" => proc.error = Missing
        /\ proc.clients = {}
        /\ ~proc.listening
        /\ pc = "idle"
        /\ made = NoCalls
        /\ db = <<>> /\ chat = <<>>

C12_Witness ==
    /\ proc.stage = "failed"
    /\ config["LINE_CHANNEL_ACCESS_TOKEN"] = "empty"
    /\ config["GOOGLE_CLOUD_CREDENTIALS"] = "absent"
    /\ config["LINE_CHANNEL_SECRET"] = "set"
    /\ config["OPENAI_API_KEY"] = "set"
    /\ proc.error = {"LINE_CHANNEL_ACCESS_TOKEN", "GOOGLE_CLOUD_CREDENTIALS"}
    /\ proc.clients = {}

\* C13: the steps of an event occur in the order user-turn write,
\* completion call, bot-turn write, dispatch, each after the one before has
\* returned, and none before verification and parsing have succeeded.
C13_StepOrder ==
    /\ Len(calls) <= 4
    /\ Ops = SubSeq(FullPipeline, 1, Len(calls))
    /\ \A i \in 1..Len(calls) :
          calls[i].op = "save" => calls[i].sender = IF i = 1 THEN "user"
                                                    ELSE "bot"
    /\ pc = "save_user" => Len(calls) = 0
    /\ pc = "complete" => Len(calls) = 1
    /\ pc = "save_bot" => Len(calls) = 2
    /\ pc = "reply" => Len(calls) = 3
    /\ (made # NoCalls \/ calls # <<>> \/ pc \in {"save_user", "complete",
                                                 "save_bot", "reply"})
          => /\ Verified
             /\ ParseOutcome(signature, body) = "ok"
             /\ events = body.events

C13_Witness ==
    /\ pc = "reply"
    /\ Verified
    /\ Len(calls) = 3
    /\ calls[1].sender = "user" /\ ~calls[1].ok
    /\ calls[2].op = "complete"
    /\ calls[3].sender = "bot"
    /\ calls[3].ev = 2

\* The dispatch attempts of the first run, as the second run records them.
Sent == [i \in 1..Len(CallsOf("reply")) |->
            [text |-> CallsOf("reply")[i].text, ok |-> CallsOf("reply")[i].ok]]

\* C14: two runs of the same event with the same completion outcome and the
\* same dispatch outcome, whatever the outcomes of their user-turn and
\* bot-turn writes, dispatch the same reply text and give the same HTTP
\* response.
C14_WritesDoNotShowThrough ==
    twin.on =>
        /\ Returned =>
              /\ twin.pc \in {"events", "done"}
              /\ twin.sent = Sent
        /\ pc = "done" =>
              /\ twin.pc = "done"
              /\ twin.response = response

C14_Witness ==
    /\ twin.on
    /\ pc = "done"
    /\ response = 200
    /\ Ops = FullPipeline
    /\ calls[1].ok /\ calls[3].ok
    /\ twin.writes = <<FALSE, FALSE>>
    /\ ~calls[2].ok
    /\ calls[4].ok
    /\ twin.sent = <<[text |-> FallbackReply, ok |-> TRUE]>>

\* C15: in a verified batch with several text events a failed step of one
\* event does not stop the handling of the others: every text event gets
\* its own completion call and its own dispatch attempt, and the response
\* is 200.
C15_BatchGoesOn ==
    (Verified /\ TextCount(events) >= 2) =>
        /\ Returned =>
              LET k == calls[1].ev
              IN  /\ IsTextEvent(events[k])
                  /\ \E i \in 1..Len(calls) :
                        calls[i].op = "complete" /\ calls[i].ev = k
                  /\ \E i \in 1..Len(calls) :
                        calls[i].op = "reply" /\ calls[i].ev = k
                  /\ made.complete = TextCount(SubSeq(events, 1, k))
                  /\ made.reply = TextCount(SubSeq(events, 1, k))
                  /\ idx > k
        /\ pc = "done" =>
              /\ response = 200
              /\ idx = Len(events) + 1
              /\ made.complete = TextCount(events)
              /\ made.reply = TextCount(events)

C15_Witness ==
    /\ pc = "done"
    /\ Verified
    /\ TextCount(events) = 2
    /\ handled = 2
    /\ db = <<>>
    /\ chat = <<>>
    /\ made = [save |-> 4, complete |-> 2, reply |-> 2]
    /\ \A i \in 1..Len(calls) : ~calls[i].ok /\ calls[i].ev = 2
    /\ response = 200

\* C16: the text of the bot-turn record passed to the persistence write is
\* the text passed to the dispatch, with a generated reply and with the
\* fallback reply alike; the fallback reply is logged as a bot turn.
C16_LoggedTextIsSentText ==
    \A i, j \in 1..Len(calls) :
        (/\ calls[i].op = "save" /\ calls[i].sender = "bot"
         /\ calls[j].op = "reply")
            => /\ calls[i].text = calls[j].text
               /\ calls[i].ok =>
                     /\ calls[i].at \in 1..Len(db)
                     /\ db[calls[i].at].sender = "bot"
                     /\ db[calls[i].at].text = calls[j].text
               /\ \A k \in 1..Len(calls) :
                     (calls[k].op = "complete" /\ ~calls[k].ok) =>
                         calls[i].text = FallbackReply

C16_Witness ==
    /\ Returned
    /\ Ops = FullPipeline
    /\ ~calls[2].ok
    /\ calls[3].ok
    /\ calls[4].ok
    /\ db[Len(db)] = [user_id |-> events[calls[3].ev].user_id,
                      sender |-> "bot", text |-> FallbackReply]
    /\ chat[Len(chat)].text = db[Len(db)].text

\* The process as startup leaves it.
Started == [stage |-> "serving", clients |-> FirebaseClients \cup OtherClients,
            listening |-> TRUE, error |-> {}]

\* C17: handling a request changes no in-process state: the module-level
\* client handles and the configuration are after any sequence of requests
\* as after startup, and nothing of a request is kept for the next.
C17_NothingKept ==
    proc.listening =>
        /\ proc = Started
        /\ Missing = {}
        /\ pc = "idle" =>
              /\ signature = "absent" /\ body = Undecodable
              /\ response = 0
              /\ events = <<>> /\ idx = 0
              /\ local = NoLocal
              /\ calls = <<>> /\ made = NoCalls
C17_GlobalsStep ==
    proc.listening => (proc' = proc /\ config' = config)
C17_Stateless == []C17_NothingKept /\ [][C17_GlobalsStep]_vars

C17_Witness ==
    /\ pc = "idle"
    /\ proc = Started
    /\ handled = 2
    /\ Len(db) = 4
    /\ Len(chat) = 2

\* C18: provided every external call returns, every request reaches a
\* terminal state (rejected, or each of its events skipped or dispatched)
\* and produces exactly one HTTP response.
C18_Terminal ==
    /\ response # 0 <=> pc = "done"
    /\ pc = "done" =>
          \/ response \in {400, 500} /\ made = NoCalls
          \/ /\ response = 200
             /\ idx = Len(events) + 1
             /\ made.reply = TextCount(events)
C18_OneResponse ==
    response # 0 => (response' = response \/ (pc' = "idle" /\ response' = 0))
C18_EveryRequestAnswered ==
    /\ (pc = "received") ~> (pc = "done")
    /\ []C18_Terminal
    /\ [][C18_OneResponse]_vars

C18_Witness ==
    /\ pc = "done"
    /\ response = 200
    /\ Len(events) = 2
    /\ TextCount(events) = 1
    /\ IsTextEvent(events[1])
    /\ made.reply = 1
    /\ ~calls[4].ok

\* C19: save_message never raises to its caller: an error of the store
\* write is caught and logged inside save_message, so the except clauses of
\* handle_message around the two save_message calls are never taken and a
\* write failure is logged exactly once.
C19_SaveNeverRaises ==
    \A i \in 1..Len(calls) :
        calls[i].op = "save" =>
            /\ ~calls[i].raised
            /\ calls[i].logged = IF calls[i].env_ok THEN 0 ELSE 1
            /\ calls[i].ok = calls[i].env_ok

C19_Witness ==
    /\ Returned
    /\ Ops = FullPipeline
    /\ ~calls[1].env_ok /\ calls[1].logged = 1 /\ ~calls[1].raised
    /\ ~calls[3].env_ok /\ calls[3].logged = 1 /\ ~calls[3].raised
    /\ calls[2].ok /\ calls[4].ok

====
